---- MODULE Spec2Model ----
(***************************************************************************)
(* Sistema Bancario 2.0 (src/app.py): the holder registry, the account     *)
(* registry and the ledger operations, as one state machine.               *)
(*                                                                         *)
(* Texts (CPF, names, addresses) are sequences of one-character strings.   *)
(* Amounts are Python floats: a float is modelled as a record that is      *)
(* either NaN or a finite whole number of currency units, with the IEEE    *)
(* rule that every ordered comparison with NaN is false.                   *)
(***************************************************************************)
EXTENDS Integers, Sequences, FiniteSets, TLC

\* ------------------------------------------------------------------ bounds
\* Most accounts the registry may hold.
MaxContas == 3
\* Most entries the logs of all accounts may hold together.
MaxLancamentos == 3

\* ------------------------------------------------------------------ floats
F(n) == [nan |-> FALSE, v |-> n]
NaN == [nan |-> TRUE, v |-> 0]
Menor(a, b) == ~a.nan /\ ~b.nan /\ a.v < b.v
MenorIgual(a, b) == ~a.nan /\ ~b.nan /\ a.v <= b.v
Maior(a, b) == ~a.nan /\ ~b.nan /\ a.v > b.v
MaiorIgual(a, b) == ~a.nan /\ ~b.nan /\ a.v >= b.v
Soma(a, b) == IF a.nan \/ b.nan THEN NaN ELSE F(a.v + b.v)
Subtrai(a, b) == IF a.nan \/ b.nan THEN NaN ELSE F(a.v - b.v)

\* ------------------------------------------------------------------ inputs
\* Amounts a caller may pass to deposito and to saque.
ValoresDeposito == {F(0 - 1), F(0), F(1), F(2), NaN}
ValoresSaque == {F(0 - 1), F(0), F(1), F(2), NaN}
\* Per-withdrawal ceilings (in whole units) and daily withdrawal counts of a session.
LimitesPorSaque == {F(1)}
LimitesSaquesDia == {0, 1}
\* Raw CPF texts: "1", "1.", "a" (no digit), "2-".
Cpfs == {<<"1">>, <<"1", ".">>, <<"a">>, <<"2", "-">>}
\* Birth dates as the fields of "DD/MM/AAAA"; <<>> is a text with another shape.
DatasNascimento == {<<29, 2, 2000>>, <<29, 2, 1900>>, <<>>}
\* Calendar dates the system clock may show.
Dias == {"2026-11-01", "2026-11-02"}
Nomes == {<<" ", "A", " ">>, <<"B">>}
Enderecos == {<<"R", " ">>}

\* ------------------------------------------------------------------ results
Ok == "ok"
ErrCpfInvalido == "CPF invalido: informe ao menos um digito."
ErrCpfDuplicado == "Ja existe usuario com este CPF."
ErrDataInvalida == "Data de nascimento invalida. Use o formato DD/MM/AAAA."
ErrUsuarioNaoEncontrado == "Usuario nao encontrado para o CPF informado."
ErrValorDeposito == "Valor de deposito deve ser positivo."
ErrValorSaque == "Valor de saque deve ser positivo."
ErrSaldoInsuficiente == "Saldo insuficiente para saque."
ErrLimiteValor == "Valor excede o limite por saque."
ErrLimiteSaques == "Limite de saques do periodo atingido."

\* ------------------------------------------------------------------ state
VARIABLES
    usuarios,           \* main's usuarios: normalized CPF -> Usuario
    contas,             \* main's contas: account number -> Conta
    limite_por_saque,   \* main's limite_por_saque
    limite_saques_dia,  \* main's limite_saques_dia
    hoje,               \* the calendar date the system clock shows
    op,                 \* the operation called last
    resultado,          \* Ok, or the message of the ValueError it raised
    historico,          \* observer, per account: what was done on it so far
    conta_atual         \* main's conta_atual: the numbers of the active account (none or one)

registros == <<usuarios, contas>>
\* main's locals that no function of the module is given
config == <<limite_por_saque, limite_saques_dia, conta_atual>>
vars == <<usuarios, contas, limite_por_saque, limite_saques_dia, hoje, op, resultado, historico,
          conta_atual>>

\* data_referencia_saques = None
Nenhuma == "None"

\* ------------------------------------------------------------------ helpers
Digitos == {"0", "1", "2", "3", "4", "5", "6", "7", "8", "9"}
IsDigit(ch) == ch \in Digitos

somente_digitos(texto) == SelectSeq(texto, IsDigit)

RECURSIVE lstrip(_)
lstrip(t) == IF t # <<>> /\ Head(t) = " " THEN lstrip(Tail(t)) ELSE t

RECURSIVE rstrip(_)
rstrip(t) == IF t # <<>> /\ t[Len(t)] = " " THEN rstrip(SubSeq(t, 1, Len(t) - 1)) ELSE t

strip(t) == rstrip(lstrip(t))

Bissexto(a) == (a % 4 = 0 /\ a % 100 # 0) \/ a % 400 = 0

DiasNoMes(m, a) ==
    IF m = 2 THEN (IF Bissexto(a) THEN 29 ELSE 28)
    ELSE IF m \in {4, 6, 9, 11} THEN 30 ELSE 31

\* datetime.strptime(s, "%d/%m/%Y") succeeds
DataValida(s) ==
    /\ Len(s) = 3
    /\ s[3] \in 1..9999
    /\ s[2] \in 1..12
    /\ s[1] \in 1..DiasNoMes(s[2], s[3])

\* the date datetime.strptime(s, "%d/%m/%Y").date() returns for a valid s
strptime(s) == [ano |-> s[3], mes |-> s[2], dia |-> s[1]]

filtrar_usuario_por_cpf(cpf, us) ==
    LET cpf_num == somente_digitos(cpf)
    IN  IF cpf_num \in DOMAIN us THEN {us[cpf_num]} ELSE {}

NumerosDeContas == DOMAIN contas

Max(S) == CHOOSE x \in S : \A y \in S : y <= x

TotalLancamentos ==
    LET RECURSIVE soma(_)
        soma(S) == IF S = {} THEN 0
                   ELSE LET n == CHOOSE x \in S : TRUE
                        IN  Len(contas[n].extrato) + soma(S \ {n})
    IN  soma(NumerosDeContas)

\* ------------------------------------------------------------------ Init
Init ==
    /\ usuarios = <<>>
    /\ contas = <<>>
    /\ limite_por_saque \in LimitesPorSaque
    /\ limite_saques_dia \in LimitesSaquesDia
    /\ hoje \in Dias
    /\ op = "inicio"
    /\ resultado = Ok
    /\ historico = <<>>
    /\ conta_atual = {}

\* ------------------------------------------------------------------ registries
\* Mutant: the CPF is not looked up before the holder is stored.
criar_usuario_resultado_sem_duplicado(data_nascimento_str, cpf, us) ==
    LET cpf_num == somente_digitos(cpf)
    IN  IF cpf_num = <<>> THEN ErrCpfInvalido
        ELSE IF ~DataValida(data_nascimento_str) THEN ErrDataInvalida
        ELSE Ok

\* The message criar_usuario raises for these arguments, or Ok.
criar_usuario_resultado(data_nascimento_str, cpf, us) ==
    LET cpf_num == somente_digitos(cpf)
    IN  IF cpf_num = <<>> THEN ErrCpfInvalido
        ELSE IF cpf_num \in DOMAIN us THEN ErrCpfDuplicado
        ELSE IF ~DataValida(data_nascimento_str) THEN ErrDataInvalida
        ELSE Ok

criar_usuario(nome, data_nascimento_str, cpf, endereco) ==
    LET cpf_num == somente_digitos(cpf)
        res == criar_usuario_resultado(data_nascimento_str, cpf, usuarios)
        usuario == [nome |-> strip(nome), data_nascimento |-> strptime(data_nascimento_str),
                    cpf |-> cpf_num, endereco |-> strip(endereco)]
    IN  /\ op' = "criar_usuario"
        /\ resultado' = res
        /\ usuarios' = IF res = Ok
                       THEN [c \in DOMAIN usuarios \cup {cpf_num} |->
                                IF c = cpf_num THEN usuario ELSE usuarios[c]]
                       ELSE usuarios
        /\ UNCHANGED <<contas, config, hoje, historico>>

\* Mutant: the next number is the number of accounts, so numbering starts at 0.
proximo_numero_do_zero(cs) == Cardinality(DOMAIN cs)

proximo_numero(cs) == IF DOMAIN cs = {} THEN 1 ELSE Max(DOMAIN cs) + 1

NovaConta(numero, cpf_num) ==
    [agencia |-> "0001", numero |-> numero, cpf_titular |-> cpf_num,
     saldo |-> F(0), extrato |-> <<>>, numero_saques_hoje |-> 0,
     data_referencia_saques |-> Nenhuma]

\* Nothing was done on the account yet: no withdrawal attempt (dia, tentativas,
\* sucessos are those of the account's current day), no successful deposit or
\* withdrawal, on any date.
NovoHistorico ==
    [dia |-> Nenhuma, tentativas |-> 0, sucessos |-> 0,
     depositos |-> 0, saques |-> 0, total_depositos |-> F(0), total_saques |-> F(0),
     saques_por_dia |-> [d \in Dias |-> 0]]

\* Mutant: the holder is not looked up before the account is stored.
criar_conta_sem_titular(cpf_titular) ==
    LET cpf_num == somente_digitos(cpf_titular)
        n == proximo_numero(contas)
    IN  /\ op' = "criar_conta"
        /\ Cardinality(DOMAIN contas) < MaxContas
        /\ resultado' = Ok
        /\ contas' = [k \in DOMAIN contas \cup {n} |->
                        IF k = n THEN NovaConta(n, cpf_num) ELSE contas[k]]
        /\ historico' = [k \in DOMAIN contas \cup {n} |->
                        IF k = n THEN NovoHistorico ELSE historico[k]]
        /\ UNCHANGED <<usuarios, config, hoje>>

\* Mutant: the account stores the identifier as typed, not its normalized form.
criar_conta_cpf_como_digitado(cpf_titular) ==
    LET cpf_num == somente_digitos(cpf_titular)
        n == proximo_numero(contas)
    IN  /\ op' = "criar_conta"
        /\ IF cpf_num \notin DOMAIN usuarios
           THEN /\ resultado' = ErrUsuarioNaoEncontrado
                /\ UNCHANGED <<contas, historico>>
           ELSE /\ Cardinality(DOMAIN contas) < MaxContas
                /\ resultado' = Ok
                /\ contas' = [k \in DOMAIN contas \cup {n} |->
                                IF k = n THEN NovaConta(n, cpf_titular) ELSE contas[k]]
                /\ historico' = [k \in DOMAIN contas \cup {n} |->
                                IF k = n THEN NovoHistorico ELSE historico[k]]
        /\ UNCHANGED <<usuarios, config, hoje>>

criar_conta(cpf_titular) ==
    LET cpf_num == somente_digitos(cpf_titular)
        n == proximo_numero(contas)
    IN  /\ op' = "criar_conta"
        /\ IF cpf_num \notin DOMAIN usuarios
           THEN /\ resultado' = ErrUsuarioNaoEncontrado
                /\ UNCHANGED <<contas, historico>>
           ELSE /\ Cardinality(DOMAIN contas) < MaxContas
                /\ resultado' = Ok
                /\ contas' = [k \in DOMAIN contas \cup {n} |->
                                IF k = n THEN NovaConta(n, cpf_num) ELSE contas[k]]
                /\ historico' = [k \in DOMAIN contas \cup {n} |->
                                IF k = n THEN NovoHistorico ELSE historico[k]]
        /\ UNCHANGED <<usuarios, config, hoje>>

\* ------------------------------------------------------------------ ledger
\* f"{valor:,.2f}" of a whole amount, or "nan"
formatar_moeda(valor) == [nan |-> valor.nan, reais |-> valor.v, centavos |-> 0]

Lancamento(tipo, valor, saldo) ==
    [data |-> hoje, tipo |-> tipo, valor |-> formatar_moeda(valor),
     saldo |-> formatar_moeda(saldo)]

\* Mutant: an amount of 0 is accepted.
deposito_resultado_aceita_zero(valor) ==
    IF Menor(valor, F(0)) THEN ErrValorDeposito ELSE Ok

\* The message deposito raises for this amount, or Ok.
deposito_resultado(valor) ==
    IF MenorIgual(valor, F(0)) THEN ErrValorDeposito ELSE Ok

\* Mutant: the entry is put at the head of the log.
deposito_no_inicio(saldo, valor, extrato) ==
    LET novo == Soma(saldo, valor)
    IN  [saldo |-> novo, extrato |-> <<Lancamento("DEPOSITO", valor, novo)>> \o extrato]

\* What deposito returns: the new balance and the log with one entry appended.
deposito(saldo, valor, extrato) ==
    LET novo == Soma(saldo, valor)
    IN  [saldo |-> novo, extrato |-> Append(extrato, Lancamento("DEPOSITO", valor, novo))]

\* A successful deposit is added to the account's count and sum of deposits.
RegistrarDeposito(h, res, valor) ==
    IF res = Ok
    THEN [h EXCEPT !.depositos = @ + 1, !.total_depositos = Soma(@, valor)]
    ELSE h

\* Mutant: the accounts share one log, so a deposit is written to every log.
depositar_em_todos_os_extratos(n, valor) ==
    LET conta == contas[n]
        res == deposito_resultado(valor)
        ret == deposito(conta.saldo, valor, conta.extrato)
    IN  /\ op' = "depositar"
        /\ resultado' = res
        /\ historico' = [historico EXCEPT ![n] = RegistrarDeposito(@, res, valor)]
        /\ IF res = Ok
           THEN contas' = [k \in DOMAIN contas |->
                            IF k = n
                            THEN [conta EXCEPT !.saldo = ret.saldo, !.extrato = ret.extrato]
                            ELSE [contas[k] EXCEPT !.extrato =
                                    Append(@, Lancamento("DEPOSITO", valor, ret.saldo))]]
           ELSE UNCHANGED contas
        /\ UNCHANGED <<usuarios, config, hoje>>

depositar_na_conta(n, valor) ==
    LET conta == contas[n]
        res == deposito_resultado(valor)
        ret == deposito(conta.saldo, valor, conta.extrato)
    IN  /\ op' = "depositar"
        /\ resultado' = res
        /\ historico' = [historico EXCEPT ![n] = RegistrarDeposito(@, res, valor)]
        /\ IF res = Ok
           THEN contas' = [contas EXCEPT ![n] =
                            [conta EXCEPT !.saldo = ret.saldo, !.extrato = ret.extrato]]
           ELSE UNCHANGED contas
        /\ UNCHANGED <<usuarios, config, hoje>>

\* Mutant: the new-day reset is left out.
resetar_nunca(conta) == conta

\* Mutant: the counter is reset at every withdrawal, not only on a new day.
resetar_contagem_sempre(conta) ==
    [conta EXCEPT !.data_referencia_saques = hoje, !.numero_saques_hoje = 0]

\* Mutant: the reference date moves to today and the counter is kept.
resetar_so_a_data(conta) ==
    IF conta.data_referencia_saques # hoje
    THEN [conta EXCEPT !.data_referencia_saques = hoje]
    ELSE conta

_resetar_contagem_saques_se_novo_dia(conta) ==
    IF conta.data_referencia_saques # hoje
    THEN [conta EXCEPT !.data_referencia_saques = hoje, !.numero_saques_hoje = 0]
    ELSE conta

\* Mutant: the daily limit is not checked.
saque_resultado_sem_limite_diario(saldo, valor, limite, numero_saques, limite_saques) ==
    IF MenorIgual(valor, F(0)) THEN ErrValorSaque
    ELSE IF Maior(valor, saldo) THEN ErrSaldoInsuficiente
    ELSE IF Maior(valor, limite) THEN ErrLimiteValor
    ELSE Ok

\* Mutant: the per-withdrawal limit is checked before the balance.
saque_resultado_limite_antes(saldo, valor, limite, numero_saques, limite_saques) ==
    IF MenorIgual(valor, F(0)) THEN ErrValorSaque
    ELSE IF Maior(valor, limite) THEN ErrLimiteValor
    ELSE IF Maior(valor, saldo) THEN ErrSaldoInsuficiente
    ELSE IF numero_saques >= limite_saques THEN ErrLimiteSaques
    ELSE Ok

\* Mutant: the daily limit is compared with > instead of >=.
saque_resultado_um_a_mais(saldo, valor, limite, numero_saques, limite_saques) ==
    IF MenorIgual(valor, F(0)) THEN ErrValorSaque
    ELSE IF Maior(valor, saldo) THEN ErrSaldoInsuficiente
    ELSE IF Maior(valor, limite) THEN ErrLimiteValor
    ELSE IF numero_saques > limite_saques THEN ErrLimiteSaques
    ELSE Ok

\* The message saque raises for these arguments, or Ok.
saque_resultado(saldo, valor, limite, numero_saques, limite_saques) ==
    IF MenorIgual(valor, F(0)) THEN ErrValorSaque
    ELSE IF Maior(valor, saldo) THEN ErrSaldoInsuficiente
    ELSE IF Maior(valor, limite) THEN ErrLimiteValor
    ELSE IF numero_saques >= limite_saques THEN ErrLimiteSaques
    ELSE Ok

\* Mutant: the withdrawal is not written to the log.
saque_sem_lancamento(saldo, valor, extrato, numero_saques) ==
    [saldo |-> Subtrai(saldo, valor), extrato |-> extrato,
     numero_saques |-> numero_saques + 1]

\* Mutant: the withdrawal is not counted.
saque_sem_contar(saldo, valor, extrato, numero_saques) ==
    LET novo == Subtrai(saldo, valor)
    IN  [saldo |-> novo, extrato |-> Append(extrato, Lancamento("SAQUE", valor, novo)),
         numero_saques |-> numero_saques]

\* What saque returns: the new balance, the log with one entry appended, the new count.
saque(saldo, valor, extrato, numero_saques) ==
    LET novo == Subtrai(saldo, valor)
    IN  [saldo |-> novo, extrato |-> Append(extrato, Lancamento("SAQUE", valor, novo)),
         numero_saques |-> numero_saques + 1]

\* The most withdrawal attempts of one day that are counted one by one: twice
\* the daily limit, and at least the limit plus one.
TentativasContadas ==
    IF limite_saques_dia <= 1 THEN limite_saques_dia + 1 ELSE 2 * limite_saques_dia

\* The withdrawal attempts made on an account since the clock last showed another
\* date at one of them, with this one counted; attempts past the
\* TentativasContadas-th are counted as one more.
RegistrarTentativa(h, res) ==
    LET h1 == IF h.dia # hoje
              THEN [h EXCEPT !.dia = hoje, !.tentativas = 0, !.sucessos = 0]
              ELSE h
    IN  [h1 EXCEPT !.tentativas = IF @ >= TentativasContadas THEN TentativasContadas + 1
                                  ELSE @ + 1,
                   !.sucessos = @ + (IF res = Ok THEN 1 ELSE 0)]

\* A successful withdrawal is added to the account's count and sum of
\* withdrawals and to the count of the date the clock shows.
RegistrarSaque(h, res, valor) ==
    IF res = Ok
    THEN [h EXCEPT !.saques = @ + 1, !.total_saques = Soma(@, valor),
                   !.saques_por_dia[hoje] = @ + 1]
    ELSE h

sacar_da_conta(n, valor) ==
    LET conta == _resetar_contagem_saques_se_novo_dia(contas[n])
        res == saque_resultado(conta.saldo, valor, limite_por_saque,
                               conta.numero_saques_hoje, limite_saques_dia)
        ret == saque(conta.saldo, valor, conta.extrato, conta.numero_saques_hoje)
        h == RegistrarSaque(RegistrarTentativa(historico[n], res), res, valor)
    IN  /\ op' = "sacar"
        /\ resultado' = res
        /\ historico' = [historico EXCEPT ![n] = h]
        /\ IF res = Ok
           THEN contas' = [contas EXCEPT ![n] =
                            [conta EXCEPT !.saldo = ret.saldo, !.extrato = ret.extrato,
                                          !.numero_saques_hoje = ret.numero_saques]]
           ELSE contas' = [contas EXCEPT ![n] = conta]
        /\ UNCHANGED <<usuarios, config, hoje>>

extrato_da_conta(n) ==
    /\ op' = "extrato"
    /\ resultado' = Ok
    /\ UNCHANGED <<usuarios, contas, config, hoje, historico>>

\* The system clock shows another calendar date (a later one, or an earlier one
\* after the clock is set back).
MudarData(d) ==
    /\ d # hoje
    /\ hoje' = d
    /\ UNCHANGED <<usuarios, contas, config, op, resultado, historico>>

\* ------------------------------------------------------------------ Next
CriarUsuario == \E nome \in Nomes, dn \in DatasNascimento, cpf \in Cpfs, e \in Enderecos :
                    criar_usuario(nome, dn, cpf, e)
CriarConta == \E cpf \in Cpfs : criar_conta(cpf)
\* The logs are explored up to max entries: a call that would append one more
\* is left out.
CabeLancamento(max) == resultado' = Ok => TotalLancamentos < max

Depositar == \E n \in NumerosDeContas, valor \in ValoresDeposito :
                depositar_na_conta(n, valor) /\ CabeLancamento(MaxLancamentos)
Sacar == \E n \in NumerosDeContas, valor \in ValoresSaque :
                sacar_da_conta(n, valor) /\ CabeLancamento(MaxLancamentos)
Extrato == \E n \in NumerosDeContas : extrato_da_conta(n)
Relogio == \E d \in Dias : MudarData(d)

Next == CriarUsuario \/ CriarConta \/ Depositar \/ Sacar \/ Extrato \/ Relogio

Spec == Init /\ [][Next]_vars

\* The registries alone: holders are registered and accounts opened.
NextCadastro == CriarUsuario \/ CriarConta

SpecCadastro == Init /\ [][NextCadastro]_vars

\* The ledger alone, from the state main is in once holder "1" is registered and
\* has opened account 1.
InitConta ==
    /\ usuarios = [c \in {<<"1">>} |->
                    [nome |-> <<"A">>, data_nascimento |-> strptime(<<29, 2, 2000>>),
                     cpf |-> c, endereco |-> <<"R">>]]
    /\ contas = <<NovaConta(1, <<"1">>)>>
    /\ limite_por_saque \in LimitesPorSaque
    /\ limite_saques_dia \in LimitesSaquesDia
    /\ hoje \in Dias
    /\ op = "criar_conta"
    /\ resultado = Ok
    /\ historico = <<NovoHistorico>>
    /\ conta_atual = {}

NextConta == Depositar \/ Sacar \/ Extrato \/ Relogio

SpecConta == InitConta /\ [][NextConta]_vars

\* The ledger under a clock that is never set back: the dates in calendar order.
Calendario == <<"2026-11-01", "2026-11-02">>
Posicao(d) == CHOOSE i \in 1..Len(Calendario) : Calendario[i] = d

\* The clock shows a later calendar date.
AvancarData(d) ==
    /\ Posicao(d) > Posicao(hoje)
    /\ MudarData(d)

RelogioCrescente == \E d \in Dias : AvancarData(d)

NextContaCrescente == Depositar \/ Sacar \/ Extrato \/ RelogioCrescente

SpecContaCrescente == InitConta /\ [][NextContaCrescente]_vars

\* ------------------------------------------------------------------ one day of main
\* The limits main passes to every withdrawal.
LimitePorSaquePadrao == F(500)
LimiteSaquesDiaPadrao == 3
\* The holder of the session, and the amounts deposited and withdrawn in it.
CpfCenario == <<"5", "2", "9", "9", "8", "2", "2", "4", "7", "2", "5">>
DepositoCenario == F(1000)
PrimeiroSaqueCenario == F(500)
SaqueCenario == F(1)
\* One successful withdrawal past the daily limit would still fit in the logs.
MaxLancamentosCenario == MaxLancamentos + 2

\* main starts: empty registries and main's own limits.
InitCenario ==
    /\ usuarios = <<>>
    /\ contas = <<>>
    /\ limite_por_saque = LimitePorSaquePadrao
    /\ limite_saques_dia = LimiteSaquesDiaPadrao
    /\ hoje \in Dias
    /\ op = "inicio"
    /\ resultado = Ok
    /\ historico = <<>>
    /\ conta_atual = {}

CenarioCadastro == \E nome \in Nomes, dn \in DatasNascimento, e \in Enderecos :
                        criar_usuario(nome, dn, CpfCenario, e)
\* One account is opened.
CenarioConta == DOMAIN contas = {} /\ criar_conta(CpfCenario)
CenarioDeposito == \E n \in NumerosDeContas :
                        /\ depositar_na_conta(n, DepositoCenario)
                        /\ CabeLancamento(MaxLancamentosCenario)
\* Once something is deposited: 500.00 is withdrawn from the first deposit,
\* 1.00 at every other withdrawal.
CenarioSaque == \E n \in NumerosDeContas :
                    /\ contas[n].extrato # <<>>
                    /\ sacar_da_conta(n, IF Len(contas[n].extrato) = 1
                                         THEN PrimeiroSaqueCenario ELSE SaqueCenario)
                    /\ CabeLancamento(MaxLancamentosCenario)
CenarioExtrato == \E n \in NumerosDeContas : extrato_da_conta(n)

\* All on one calendar date: the clock does not move.
NextCenario == CenarioCadastro \/ CenarioConta \/ CenarioDeposito \/ CenarioSaque
                  \/ CenarioExtrato

SpecCenario == InitCenario /\ [][NextCenario]_vars

\* ------------------------------------------------------------------ two accounts
\* The ledger of two accounts of one holder, from the state main is in once
\* holder "1" is registered and has opened accounts 1 and 2.
InitDuasContas ==
    /\ usuarios = [c \in {<<"1">>} |->
                    [nome |-> <<"A">>, data_nascimento |-> strptime(<<29, 2, 2000>>),
                     cpf |-> c, endereco |-> <<"R">>]]
    /\ contas = <<NovaConta(1, <<"1">>), NovaConta(2, <<"1">>)>>
    /\ limite_por_saque \in LimitesPorSaque
    /\ limite_saques_dia = 1
    /\ hoje \in Dias
    /\ op = "criar_conta"
    /\ resultado = Ok
    /\ historico = <<NovoHistorico, NovoHistorico>>
    /\ conta_atual = {}

\* Amounts deposited and withdrawn while two accounts are followed.
ValoresDuasContas == {F(0), F(1)}

DepositarEmUma == \E n \in NumerosDeContas, valor \in ValoresDuasContas :
                    depositar_na_conta(n, valor) /\ CabeLancamento(MaxLancamentos)
SacarDeUma == \E n \in NumerosDeContas, valor \in ValoresDuasContas :
                    sacar_da_conta(n, valor) /\ CabeLancamento(MaxLancamentos)

NextDuasContas == DepositarEmUma \/ SacarDeUma \/ Extrato \/ Relogio

SpecDuasContas == InitDuasContas /\ [][NextDuasContas]_vars

\* ------------------------------------------------------------------ main's menu
\* What main prints when a command calls no function of the ledger.
MsgNenhumaContaAtiva == "Nenhuma conta ativa. Use [ac] para acessar uma conta ou crie uma em [nc]."
MsgNaoHaContas == "Nao ha contas. Crie uma com [nc]."
MsgNumeroInvalido == "Numero invalido."
MsgContaNaoEncontrada == "Conta nao encontrada."
MsgOpcaoInvalida == "Opcao invalida. Tente novamente."
ErrValorNumerico == "Valor numerico invalido."

\* A typed text, by what float(...) or int(...) makes of it: a value, or ValueError.
Texto(x) == [valido |-> TRUE, valor |-> x]
TextoInvalido(x) == [valido |-> FALSE, valor |-> x]
\* Texts typed at the amount prompts and at the account-number prompt.
TextosDeValor == {Texto(F(0)), Texto(F(1)), TextoInvalido(F(0))}
TextosDeNumero == {Texto(0), Texto(1), Texto(2), TextoInvalido(0)}
\* CPF texts typed at the prompts of "nu" and "nc": "1" and "a" (no digit).
CpfsDoMenu == {<<"1">>, <<"a">>}
\* Commands typed at the menu that are none of the menu's.
OpcoesInvalidas == {"x"}

\* The loop has not ended.
NoMenu == op # "q"

\* A command that returns to the menu after printing msg, calling nothing.
VoltarAoMenu(msg) ==
    /\ op' = "menu"
    /\ resultado' = msg
    /\ UNCHANGED <<usuarios, contas, config, hoje, historico>>

\* opcao == "d"
OpcaoD(texto) ==
    /\ NoMenu
    /\ IF conta_atual = {} THEN VoltarAoMenu(MsgNenhumaContaAtiva)
       ELSE IF ~texto.valido THEN VoltarAoMenu(ErrValorNumerico)
       ELSE \E n \in conta_atual :
                depositar_na_conta(n, texto.valor) /\ CabeLancamento(MaxLancamentos)

\* opcao == "s"
OpcaoS(texto) ==
    /\ NoMenu
    /\ IF conta_atual = {} THEN VoltarAoMenu(MsgNenhumaContaAtiva)
       ELSE IF ~texto.valido THEN VoltarAoMenu(ErrValorNumerico)
       ELSE \E n \in conta_atual :
                sacar_da_conta(n, texto.valor) /\ CabeLancamento(MaxLancamentos)

\* opcao == "e"
OpcaoE ==
    /\ NoMenu
    /\ IF conta_atual = {} THEN VoltarAoMenu(MsgNenhumaContaAtiva)
       ELSE \E n \in conta_atual : extrato_da_conta(n)

\* opcao == "nu"
OpcaoNU(nome, data_nasc, cpf, endereco) ==
    NoMenu /\ criar_usuario(nome, data_nasc, cpf, endereco)

\* opcao == "nc"
OpcaoNC(cpf) == NoMenu /\ criar_conta(cpf)

\* opcao == "lc"
OpcaoLC ==
    /\ NoMenu
    /\ op' = "listar_contas"
    /\ resultado' = Ok
    /\ UNCHANGED <<usuarios, contas, config, hoje, historico>>

\* Mutant: a number that is not found leaves the active account as it was.
OpcaoAC_mantem_a_ativa(texto) ==
    /\ NoMenu
    /\ IF contas = <<>> THEN VoltarAoMenu(MsgNaoHaContas)
       ELSE IF ~texto.valido THEN VoltarAoMenu(MsgNumeroInvalido)
       ELSE /\ op' = "acessar"
            /\ conta_atual' = IF texto.valor \in DOMAIN contas THEN {texto.valor}
                              ELSE conta_atual
            /\ resultado' = IF texto.valor \in DOMAIN contas THEN Ok ELSE MsgContaNaoEncontrada
            /\ UNCHANGED <<usuarios, contas, limite_por_saque, limite_saques_dia, hoje,
                           historico>>

\* opcao == "ac"
OpcaoAC(texto) ==
    /\ NoMenu
    /\ IF contas = <<>> THEN VoltarAoMenu(MsgNaoHaContas)
       ELSE IF ~texto.valido THEN VoltarAoMenu(MsgNumeroInvalido)
       ELSE /\ op' = "acessar"
            /\ conta_atual' = IF texto.valor \in DOMAIN contas THEN {texto.valor} ELSE {}
            /\ resultado' = IF texto.valor \in DOMAIN contas THEN Ok ELSE MsgContaNaoEncontrada
            /\ UNCHANGED <<usuarios, contas, limite_por_saque, limite_saques_dia, hoje,
                           historico>>

\* opcao == "q"
OpcaoQ ==
    /\ NoMenu
    /\ op' = "q"
    /\ resultado' = Ok
    /\ UNCHANGED <<usuarios, contas, config, hoje, historico>>

\* any other text
OpcaoInvalida(opcao) == NoMenu /\ VoltarAoMenu(MsgOpcaoInvalida)

MenuD == \E texto \in TextosDeValor : OpcaoD(texto)
MenuS == \E texto \in TextosDeValor : OpcaoS(texto)
MenuE == OpcaoE
MenuNU == \E dn \in DatasNascimento, cpf \in CpfsDoMenu : OpcaoNU(<<"B">>, dn, cpf, <<"R">>)
MenuNC == \E cpf \in CpfsDoMenu : OpcaoNC(cpf)
MenuLC == OpcaoLC
MenuAC == \E texto \in TextosDeNumero : OpcaoAC(texto)
MenuQ == OpcaoQ
MenuOutra == \E opcao \in OpcoesInvalidas : OpcaoInvalida(opcao)

\* The commands of a session held on one calendar date.
NextMenu == MenuD \/ MenuS \/ MenuE \/ MenuNU \/ MenuNC \/ MenuLC \/ MenuAC \/ MenuQ
               \/ MenuOutra

\* main starts: empty registries, no active account.
InitMenu ==
    /\ usuarios = <<>>
    /\ contas = <<>>
    /\ limite_por_saque \in LimitesPorSaque
    /\ limite_saques_dia = 1
    /\ hoje = Calendario[1]
    /\ op = "inicio"
    /\ resultado = Ok
    /\ historico = <<>>
    /\ conta_atual = {}

SpecMenu == InitMenu /\ [][NextMenu]_vars

\* ------------------------------------------------------------------ claims
\* The error kinds of the specification, as the messages main prints.
ValidationError == {ErrCpfInvalido, ErrDataInvalida, ErrValorDeposito, ErrValorSaque}
DuplicateError == {ErrCpfDuplicado}
NotFoundError == {ErrUsuarioNaoEncontrado}
InsufficientFundsError == {ErrSaldoInsuficiente}
LimitExceededError == {ErrLimiteValor, ErrLimiteSaques}

\* The counter a withdrawal is evaluated against: 0 when the reference date is not today.
ContagemVigente(c) ==
    IF c.data_referencia_saques # hoje THEN 0 ELSE c.numero_saques_hoje

\* new is old with exactly one entry appended
UmLancamentoAMais(old, new) ==
    Len(new) = Len(old) + 1 /\ SubSeq(new, 1, Len(old)) = old

TemLancamento(c, tipo, dias) ==
    \E i \in 1..Len(c.extrato) : c.extrato[i].tipo = tipo /\ c.extrato[i].data \in dias

\* C1: in every reachable state every account's balance is >= 0.
C1_SaldoNaoNegativo ==
    \A n \in DOMAIN contas : MaiorIgual(contas[n].saldo, F(0))

\* C2 as stated, in the case it names: a withdrawal with amount > balance fails
\* with InsufficientFundsError and leaves the account's balance, log and
\* withdrawal counter as they were, whatever today's date is.
C2_SaqueFalhoNadaMuda ==
    [][\A n \in DOMAIN contas, valor \in ValoresSaque :
          (sacar_da_conta(n, valor) /\ Maior(valor, F(0)) /\ Maior(valor, contas[n].saldo)) =>
              /\ resultado' \in InsufficientFundsError
              /\ contas'[n].saldo = contas[n].saldo
              /\ contas'[n].extrato = contas[n].extrato
              /\ contas'[n].numero_saques_hoje = contas[n].numero_saques_hoje]_vars

\* C2 amended: a failing withdrawal leaves the account's balance and log as they
\* were; it leaves the counter and the reference date as they were when the
\* reference date is already today, and otherwise sets the counter to 0 and the
\* reference date to today.
C2_SaqueFalhoPreserva ==
    [][\A n \in DOMAIN contas, valor \in ValoresSaque :
          (sacar_da_conta(n, valor) /\ resultado' # Ok) =>
              /\ contas'[n].saldo = contas[n].saldo
              /\ contas'[n].extrato = contas[n].extrato
              /\ contas'[n].data_referencia_saques = hoje
              /\ contas'[n].numero_saques_hoje = ContagemVigente(contas[n])
              /\ contas'[n].agencia = contas[n].agencia
              /\ contas'[n].numero = contas[n].numero
              /\ contas'[n].cpf_titular = contas[n].cpf_titular]_vars

\* A withdrawal has just failed for lack of funds on a day other than the one
\* of an earlier withdrawal, with the counter back at 0.
C2_Witness ==
    /\ op = "sacar"
    /\ resultado = ErrSaldoInsuficiente
    /\ \E n \in DOMAIN contas :
          /\ contas[n].data_referencia_saques = hoje
          /\ contas[n].numero_saques_hoje = 0
          /\ TemLancamento(contas[n], "SAQUE", Dias \ {hoje})
          /\ ~TemLancamento(contas[n], "SAQUE", {hoje})

\* C3: a withdrawal fails with the first rule it violates, in the order
\* amount <= 0, amount > balance, amount > per-withdrawal limit, counter (after
\* the new-day reset) >= daily limit; and it succeeds when it violates none.
C3_OrdemDasValidacoes ==
    [][\A n \in DOMAIN contas, valor \in ValoresSaque :
          sacar_da_conta(n, valor) =>
              LET r1 == MenorIgual(valor, F(0))
                  r2 == Maior(valor, contas[n].saldo)
                  r3 == Maior(valor, limite_por_saque)
                  r4 == ContagemVigente(contas[n]) >= limite_saques_dia
              IN  /\ r1 => resultado' = ErrValorSaque
                  /\ (~r1 /\ r2) => resultado' = ErrSaldoInsuficiente
                  /\ (~r1 /\ ~r2 /\ r3) => resultado' = ErrLimiteValor
                  /\ (~r1 /\ ~r2 /\ ~r3 /\ r4) => resultado' = ErrLimiteSaques
                  /\ (~r1 /\ ~r2 /\ ~r3 /\ ~r4) => resultado' = Ok]_vars

\* A withdrawal within the balance but over the per-withdrawal limit has just
\* failed with the per-withdrawal message, on an account whose counter had also
\* reached the daily limit.
C3_Witness ==
    /\ op = "sacar"
    /\ resultado = ErrLimiteValor
    /\ \E n \in DOMAIN contas :
          /\ Maior(contas[n].saldo, limite_por_saque)
          /\ contas[n].data_referencia_saques = hoje
          /\ contas[n].numero_saques_hoje >= limite_saques_dia

\* C4 as stated: a withdrawal with amount <= balance, amount <= per-withdrawal
\* limit and counter < daily limit succeeds, the balance falls by the amount,
\* the counter is the counter before the call plus 1, and one entry is appended.
C4_SaqueValidoComoDito ==
    [][\A n \in DOMAIN contas, valor \in ValoresSaque :
          (/\ sacar_da_conta(n, valor)
           /\ MenorIgual(valor, contas[n].saldo)
           /\ MenorIgual(valor, limite_por_saque)
           /\ contas[n].numero_saques_hoje < limite_saques_dia) =>
              /\ resultado' = Ok
              /\ contas'[n].saldo = Subtrai(contas[n].saldo, valor)
              /\ contas'[n].numero_saques_hoje = contas[n].numero_saques_hoje + 1
              /\ UmLancamentoAMais(contas[n].extrato, contas'[n].extrato)]_vars

\* C4 amended: a withdrawal with 0 < amount <= balance, amount <= per-withdrawal
\* limit and counter, taken after the new-day reset, < daily limit succeeds, the
\* balance falls by the amount, the counter is that counter plus 1, and one
\* entry is appended.
C4_SaqueValido ==
    [][\A n \in DOMAIN contas, valor \in ValoresSaque :
          (/\ sacar_da_conta(n, valor)
           /\ Maior(valor, F(0))
           /\ MenorIgual(valor, contas[n].saldo)
           /\ MenorIgual(valor, limite_por_saque)
           /\ ContagemVigente(contas[n]) < limite_saques_dia) =>
              /\ resultado' = Ok
              /\ contas'[n].saldo = Subtrai(contas[n].saldo, valor)
              /\ contas'[n].numero_saques_hoje = ContagemVigente(contas[n]) + 1
              /\ UmLancamentoAMais(contas[n].extrato, contas'[n].extrato)]_vars

\* A withdrawal has just succeeded on an account with a finite balance, leaving
\* a SAQUE entry at the end of its log and the counter at 1 or more.
C4_Witness ==
    /\ op = "sacar"
    /\ resultado = Ok
    /\ \E n \in DOMAIN contas :
          /\ ~contas[n].saldo.nan
          /\ contas[n].numero_saques_hoje >= 1
          /\ contas[n].extrato # <<>>
          /\ contas[n].extrato[Len(contas[n].extrato)].tipo = "SAQUE"
          /\ contas[n].extrato[Len(contas[n].extrato)].valor = formatar_moeda(F(1))

\* C5 as stated: with a fixed daily limit, the (limit + 1)-th withdrawal attempt
\* made on an account within one calendar day fails with LimitExceededError.
C5_TentativaAlemDoLimite ==
    [][\A n \in DOMAIN contas, valor \in ValoresSaque :
          (sacar_da_conta(n, valor) /\ historico'[n].tentativas = limite_saques_dia + 1) =>
              resultado' \in LimitExceededError]_vars

\* C5 amended: with a fixed daily limit, once that many withdrawals have
\* succeeded among the attempts made on an account on one calendar day, every
\* further attempt of that day fails, and it fails with LimitExceededError when
\* its amount satisfies 0 < amount <= balance and amount <= per-withdrawal limit.
C5_LimiteDiario ==
    [][\A n \in DOMAIN contas, valor \in ValoresSaque :
          (/\ sacar_da_conta(n, valor)
           /\ historico[n].dia = hoje
           /\ historico[n].sucessos >= limite_saques_dia) =>
              /\ resultado' # Ok
              /\ (/\ Maior(valor, F(0))
                  /\ MenorIgual(valor, contas[n].saldo)
                  /\ MenorIgual(valor, limite_por_saque)) => resultado' = ErrLimiteSaques]_vars

\* With a daily limit of 1 or more: that many withdrawals succeeded today and
\* the next attempt of the day, the (limit + 1)-th, has just failed with the
\* daily-limit message.
C5_Witness ==
    /\ op = "sacar"
    /\ resultado = ErrLimiteSaques
    /\ limite_saques_dia >= 1
    /\ \E n \in DOMAIN contas :
          /\ historico[n].dia = hoje
          /\ historico[n].sucessos = limite_saques_dia
          /\ historico[n].tentativas = limite_saques_dia + 1
          /\ ~contas[n].saldo.nan

\* C6: a withdrawal on an account whose reference date is not today sets the
\* reference date to today and is evaluated against a counter of 0: with a daily
\* limit >= 1, 0 < amount <= balance and amount <= per-withdrawal limit it
\* succeeds and leaves the counter at 1, whatever the counter was; it fails on
\* the daily limit only if that limit is 0, and a failure leaves the counter at 0.
C6_PrimeiroSaqueDoDia ==
    [][\A n \in DOMAIN contas, valor \in ValoresSaque :
          (sacar_da_conta(n, valor) /\ contas[n].data_referencia_saques # hoje) =>
              /\ contas'[n].data_referencia_saques = hoje
              /\ (/\ limite_saques_dia >= 1
                  /\ Maior(valor, F(0))
                  /\ MenorIgual(valor, contas[n].saldo)
                  /\ MenorIgual(valor, limite_por_saque)) =>
                      (resultado' = Ok /\ contas'[n].numero_saques_hoje = 1)
              /\ resultado' = ErrLimiteSaques => limite_saques_dia <= 0
              /\ resultado' # Ok => contas'[n].numero_saques_hoje = 0]_vars

\* The first withdrawal of a new day has just succeeded, leaving the counter at
\* 1, on an account where the daily limit had been reached on another day.
C6_Witness ==
    /\ op = "sacar"
    /\ resultado = Ok
    /\ limite_saques_dia >= 1
    /\ \E n \in DOMAIN contas :
          LET c == contas[n]
              outros == {i \in 1..Len(c.extrato) :
                            c.extrato[i].tipo = "SAQUE" /\ c.extrato[i].data # hoje}
          IN  /\ ~c.saldo.nan
              /\ c.data_referencia_saques = hoje
              /\ c.numero_saques_hoje = 1
              /\ Cardinality(outros) >= limite_saques_dia
              /\ c.extrato[Len(c.extrato)].tipo = "SAQUE"
              /\ c.extrato[Len(c.extrato)].data = hoje

\* C7: a deposit with amount > 0 succeeds, the balance rises by the amount,
\* one entry, a DEPOSITO of that amount showing the new balance, is appended to
\* the end of the log, and the withdrawal counter and its reference date are
\* unchanged.
C7_DepositoValido ==
    [][\A n \in DOMAIN contas, valor \in ValoresDeposito :
          (depositar_na_conta(n, valor) /\ Maior(valor, F(0))) =>
              /\ resultado' = Ok
              /\ contas'[n].saldo = Soma(contas[n].saldo, valor)
              /\ UmLancamentoAMais(contas[n].extrato, contas'[n].extrato)
              /\ LET e == contas'[n].extrato[Len(contas'[n].extrato)]
                 IN  /\ e.tipo = "DEPOSITO"
                     /\ e.valor = formatar_moeda(valor)
                     /\ e.saldo = formatar_moeda(contas'[n].saldo)
              /\ contas'[n].numero_saques_hoje = contas[n].numero_saques_hoje
              /\ contas'[n].data_referencia_saques = contas[n].data_referencia_saques]_vars

\* A deposit has just succeeded on an account that already had a withdrawal
\* counted and an earlier entry in its log.
C7_Witness ==
    /\ op = "depositar"
    /\ resultado = Ok
    /\ \E n \in DOMAIN contas :
          /\ ~contas[n].saldo.nan
          /\ contas[n].numero_saques_hoje >= 1
          /\ Len(contas[n].extrato) >= 2
          /\ contas[n].extrato[Len(contas[n].extrato)].tipo = "DEPOSITO"

\* C8: a deposit with amount <= 0 fails with ValidationError and leaves the
\* account's balance, log, withdrawal counter and reference date unchanged.
C8_DepositoInvalido ==
    [][\A n \in DOMAIN contas, valor \in ValoresDeposito :
          (depositar_na_conta(n, valor) /\ MenorIgual(valor, F(0))) =>
              /\ resultado' = ErrValorDeposito
              /\ resultado' \in ValidationError
              /\ contas'[n] = contas[n]]_vars

\* A deposit has just been refused on an account that has entries in its log
\* and a withdrawal counted.
C8_Witness ==
    /\ op = "depositar"
    /\ resultado = ErrValorDeposito
    /\ \E n \in DOMAIN contas :
          /\ contas[n].extrato # <<>>
          /\ contas[n].numero_saques_hoje >= 1
          /\ contas[n].data_referencia_saques # Nenhuma

\* Every stored identifier is a non-empty text of digits, the key of its holder,
\* and no two holders share one.
C9_IdentificadoresValidos ==
    /\ \A c \in DOMAIN usuarios :
          /\ c # <<>>
          /\ \A i \in 1..Len(c) : c[i] \in {"0", "1", "2", "3", "4", "5", "6", "7", "8", "9"}
          /\ usuarios[c].cpf = c
    /\ \A c1, c2 \in DOMAIN usuarios : usuarios[c1].cpf = usuarios[c2].cpf => c1 = c2

\* What a register call does to the registry; semLetras is the raw identifier
\* without the characters of the input alphabet that are not digits.
C9_CadastroRecusado ==
    \A nome \in Nomes, dn \in DatasNascimento, cpf \in Cpfs, e \in Enderecos :
        criar_usuario(nome, dn, cpf, e) =>
            LET semLetras == SelectSeq(cpf, LAMBDA ch : ch \notin {".", "-", "a", " "})
            IN  /\ semLetras \in DOMAIN usuarios =>
                      (resultado' \in DuplicateError /\ usuarios' = usuarios)
                /\ semLetras = <<>> =>
                      (resultado' = ErrCpfInvalido /\ usuarios' = usuarios)
                /\ resultado' = Ok =>
                      (/\ DOMAIN usuarios' = DOMAIN usuarios \cup {semLetras}
                       /\ \A c \in DOMAIN usuarios : usuarios'[c] = usuarios[c])

\* C9: every stored holder identifier is a non-empty digits-only text and no two
\* holders share one; a register call whose raw identifier normalizes to one
\* already registered fails with DuplicateError, one that normalizes to the
\* empty text fails with ValidationError, and both leave the registry unchanged.
C9_Identificadores == []C9_IdentificadoresValidos /\ [][C9_CadastroRecusado]_vars

\* Two holders are registered and a register call whose raw identifier differs
\* from a stored one only by punctuation has just been refused as a duplicate.
C9_Witness ==
    /\ op = "criar_usuario"
    /\ resultado = ErrCpfDuplicado
    /\ Cardinality(DOMAIN usuarios) = 2
    /\ <<"1">> \in DOMAIN usuarios
    /\ usuarios[<<"1">>].nome = <<"B">>

\* The keys are 1..N and each account stores its key as its number.
C10_ChavesSequenciais ==
    /\ DOMAIN contas = 1..Cardinality(DOMAIN contas)
    /\ \A k \in DOMAIN contas : contas[k].numero = k

\* What a successful openAccount does to the account registry.
C10_AberturaSequencial ==
    \A cpf \in Cpfs :
        (criar_conta(cpf) /\ resultado' = Ok) =>
            LET n == Cardinality(DOMAIN contas) + 1
            IN  /\ DOMAIN contas' = DOMAIN contas \cup {n}
                /\ n \notin DOMAIN contas
                /\ contas'[n].numero = n
                /\ \A k \in DOMAIN contas : k < n /\ contas'[k] = contas[k]

\* C10: the account registry's keys are exactly 1..N for N accounts and each
\* account's stored number is its key; the n-th successful openAccount stores an
\* account numbered n, greater than every number assigned before, whoever owns
\* it, and leaves the accounts opened before as they were.
C10_NumerosSequenciais == []C10_ChavesSequenciais /\ [][C10_AberturaSequencial]_vars

\* Three accounts have been opened, numbered 1, 2 and 3, the second by another
\* holder than the first and the third.
C10_Witness ==
    /\ op = "criar_conta"
    /\ resultado = Ok
    /\ DOMAIN contas = {1, 2, 3}
    /\ contas[1].cpf_titular # contas[2].cpf_titular
    /\ contas[3].cpf_titular = contas[1].cpf_titular
    /\ contas[3].numero = 3

\* C11: openAccount for an identifier whose normalized form is not in the holder
\* registry fails with NotFoundError, creates no account, and leaves the number
\* the next successful openAccount will assign unchanged. semLetras is the raw
\* identifier without the characters of the input alphabet that are not digits.
C11_TitularDesconhecido ==
    [][\A cpf \in Cpfs :
          LET semLetras == SelectSeq(cpf, LAMBDA ch : ch \notin {".", "-", "a", " "})
          IN  (criar_conta(cpf) /\ semLetras \notin DOMAIN usuarios) =>
                  /\ resultado' \in NotFoundError
                  /\ contas' = contas
                  /\ usuarios' = usuarios
                  /\ proximo_numero(contas') = proximo_numero(contas)]_vars

\* Two accounts are open and an openAccount for an identifier that is not
\* registered has just been refused, the next number still being 3.
C11_Witness ==
    /\ op = "criar_conta"
    /\ resultado = ErrUsuarioNaoEncontrado
    /\ DOMAIN contas = {1, 2}
    /\ DOMAIN usuarios = {<<"1">>}
    /\ proximo_numero(contas) = 3

\* The account's log starts with the three entries of the example scenario:
\* 1000.00 deposited, 500.00 withdrawn, 1.00 withdrawn, all today.
C12_Roteiro(c) ==
    /\ Len(c.extrato) >= 3
    /\ SubSeq(c.extrato, 1, 3) =
          <<[data |-> hoje, tipo |-> "DEPOSITO", valor |-> formatar_moeda(F(1000)),
             saldo |-> formatar_moeda(F(1000))],
            [data |-> hoje, tipo |-> "SAQUE", valor |-> formatar_moeda(F(500)),
             saldo |-> formatar_moeda(F(500))],
            [data |-> hoje, tipo |-> "SAQUE", valor |-> formatar_moeda(F(1)),
             saldo |-> formatar_moeda(F(499))]>>

\* The first steps of the example scenario, which C12 and its amendment share:
\* the account opened is number 1; 1000.00 deposited on it gives balance 1000.00
\* and one entry; the first withdrawal, of 500.00, gives balance 500.00 and
\* counter 1; the second, of 1.00, gives balance 499.00 and counter 2.
C12_Inicio ==
    /\ (criar_conta(CpfCenario) /\ resultado' = Ok) => DOMAIN contas' = {1}
    /\ (DOMAIN contas = {1} /\ contas[1].extrato = <<>>
          /\ depositar_na_conta(1, DepositoCenario)) =>
              /\ resultado' = Ok
              /\ contas'[1].saldo = F(1000)
              /\ Len(contas'[1].extrato) = 1
    /\ (DOMAIN contas = {1} /\ Len(contas[1].extrato) = 1
          /\ sacar_da_conta(1, PrimeiroSaqueCenario)) =>
              /\ resultado' = Ok
              /\ contas'[1].saldo = F(500)
              /\ contas'[1].numero_saques_hoje = 1
    /\ (DOMAIN contas = {1} /\ Len(contas[1].extrato) = 2
          /\ contas[1].extrato[2].tipo = "SAQUE" /\ sacar_da_conta(1, SaqueCenario)) =>
              /\ resultado' = Ok
              /\ contas'[1].saldo = F(499)
              /\ contas'[1].numero_saques_hoje = 2

\* C12 as stated: in the example scenario, of the further same-day withdrawals
\* of 1.00 (the 3rd and later withdrawal attempts of the day) the 4th succeeds
\* leaving the counter at 3 and the 5th fails with LimitExceededError.
C12_QuartoSaqueAdicional ==
    [][/\ C12_Inicio
       /\ (DOMAIN contas = {1} /\ C12_Roteiro(contas[1]) /\ sacar_da_conta(1, SaqueCenario)) =>
              /\ historico'[1].tentativas = 2 + 4 =>
                    (resultado' = Ok /\ contas'[1].numero_saques_hoje = 3)
              /\ historico'[1].tentativas = 2 + 5 =>
                    resultado' \in LimitExceededError]_vars

\* C12 amended: in the example scenario, of the further same-day withdrawals of
\* 1.00 the 1st succeeds taking 1.00 from the balance (leaving 498.00 when
\* nothing was deposited in between) and leaving the counter at 3, and every
\* later one fails with LimitExceededError and leaves the balance and the
\* counter as they are.
C12_PrimeiroSaqueAdicional ==
    [][/\ C12_Inicio
       /\ (DOMAIN contas = {1} /\ C12_Roteiro(contas[1]) /\ sacar_da_conta(1, SaqueCenario)) =>
              /\ historico'[1].tentativas = 2 + 1 =>
                    /\ resultado' = Ok
                    /\ contas'[1].saldo = Subtrai(contas[1].saldo, SaqueCenario)
                    /\ Len(contas[1].extrato) = 3 => contas'[1].saldo = F(498)
                    /\ contas'[1].numero_saques_hoje = 3
              /\ historico'[1].tentativas > 2 + 1 =>
                    /\ resultado' = ErrLimiteSaques
                    /\ resultado' \in LimitExceededError
                    /\ contas'[1].saldo = contas[1].saldo
                    /\ contas'[1].numero_saques_hoje = 3]_vars

\* The scenario was played to its end: after the deposit and three successful
\* withdrawals, the 5th further withdrawal of 1.00 has just been refused.
C12_Witness ==
    /\ op = "sacar"
    /\ resultado = ErrLimiteSaques
    /\ DOMAIN contas = {1}
    /\ C12_Roteiro(contas[1])
    /\ Len(contas[1].extrato) = 4
    /\ contas[1].saldo = F(498)
    /\ contas[1].numero_saques_hoje = 3
    /\ historico[1].tentativas = 2 + 5

\* Every account's owner identifier is the identifier of exactly one registered
\* holder, and its agency code is "0001".
C13_TitularRegistrado ==
    \A n \in DOMAIN contas :
        /\ Cardinality({c \in DOMAIN usuarios : usuarios[c].cpf = contas[n].cpf_titular}) = 1
        /\ contas[n].cpf_titular \in DOMAIN usuarios
        /\ contas[n].agencia = "0001"

\* The account a successful openAccount stores.
C13_ContaNova ==
    \A cpf \in Cpfs :
        (criar_conta(cpf) /\ resultado' = Ok) =>
            \A n \in DOMAIN contas' \ DOMAIN contas :
                /\ contas'[n].saldo = F(0)
                /\ contas'[n].extrato = <<>>
                /\ contas'[n].numero_saques_hoje = 0
                /\ contas'[n].data_referencia_saques = Nenhuma
                /\ contas'[n].agencia = "0001"

\* C13: in every reachable state every account's owner identifier is the
\* identifier of exactly one holder in the holder registry and its agency code
\* is "0001"; a newly opened account has balance 0, an empty log, withdrawal
\* counter 0 and no reference date.
C13_ContasDeTitulares == []C13_TitularRegistrado /\ [][C13_ContaNova]_vars

\* Two holders are registered and an account has just been opened for an
\* identifier typed with punctuation, next to an account of the other holder.
C13_Witness ==
    /\ op = "criar_conta"
    /\ resultado = Ok
    /\ Cardinality(DOMAIN usuarios) = 2
    /\ DOMAIN contas = {1, 2}
    /\ contas[1].cpf_titular = <<"1">>
    /\ contas[2].cpf_titular = <<"2">>
    /\ contas[2].saldo = F(0)
    /\ contas[2].extrato = <<>>

\* C14 as stated, for finite amounts: after any deposit or withdrawal attempt on
\* an account, the account's counter equals the number of successful
\* withdrawals made on it on today's calendar date.
C14_ContagemDeHoje ==
    [][\A n \in DOMAIN contas, valor \in ValoresDeposito \cup ValoresSaque :
          ((depositar_na_conta(n, valor) \/ sacar_da_conta(n, valor))
              /\ ~valor.nan /\ ~contas[n].saldo.nan) =>
                  contas'[n].numero_saques_hoje = historico'[n].saques_por_dia[hoje]]_vars

\* The counter is the number of successful withdrawals made on the account on
\* its reference date, and 0 while it has none.
C14_ContagemDaDataDeReferencia ==
    \A n \in DOMAIN contas :
        contas[n].numero_saques_hoje =
            IF contas[n].data_referencia_saques = Nenhuma THEN 0
            ELSE historico[n].saques_por_dia[contas[n].data_referencia_saques]

\* What a withdrawal attempt and a deposit attempt do to the counter.
C14_SoOSaqueReinicia ==
    /\ \A n \in DOMAIN contas, valor \in ValoresSaque :
          sacar_da_conta(n, valor) =>
              /\ contas'[n].data_referencia_saques = hoje
              /\ contas'[n].numero_saques_hoje = historico'[n].saques_por_dia[hoje]
    /\ \A n \in DOMAIN contas, valor \in ValoresDeposito :
          depositar_na_conta(n, valor) =>
              /\ contas'[n].data_referencia_saques = contas[n].data_referencia_saques
              /\ contas'[n].numero_saques_hoje = contas[n].numero_saques_hoje

\* C14 amended: while the observed date never decreases, the counter counts the
\* successful withdrawals made on the account on its reference date and is
\* reset by the first withdrawal attempt of a new day, not by a deposit: after
\* any withdrawal attempt the reference date is today and the counter equals
\* the number of successful withdrawals made on today's date; a deposit attempt
\* leaves the counter and the reference date as they were.
C14_ContagemDiaria == []C14_ContagemDaDataDeReferencia /\ [][C14_SoOSaqueReinicia]_vars

\* A deposit has just been made on a later day than the account's only
\* withdrawal: the counter still counts that withdrawal and none was made today.
C14_Witness ==
    /\ op = "depositar"
    /\ resultado = Ok
    /\ \E n \in DOMAIN contas :
          /\ contas[n].data_referencia_saques \notin {hoje, Nenhuma}
          /\ contas[n].numero_saques_hoje = 1
          /\ historico[n].saques_por_dia[hoje] = 0
          /\ contas[n].extrato[Len(contas[n].extrato)].data = hoje
          /\ ~contas[n].saldo.nan

\* The log's length is the number of successful deposits plus the number of
\* successful withdrawals made on the account.
C15_TamanhoDoExtrato ==
    \A n \in DOMAIN contas :
        Len(contas[n].extrato) = historico[n].depositos + historico[n].saques

\* What one step does to the logs: every step leaves the old log as a prefix
\* of the new one; a successful deposit or withdrawal appends exactly one
\* entry; a failing one and a statement call append none.
C15_SoAcrescenta ==
    /\ \A n \in DOMAIN contas :
          /\ Len(contas'[n].extrato) >= Len(contas[n].extrato)
          /\ SubSeq(contas'[n].extrato, 1, Len(contas[n].extrato)) = contas[n].extrato
    /\ \A n \in DOMAIN contas, valor \in ValoresDeposito \cup ValoresSaque :
          (depositar_na_conta(n, valor) \/ sacar_da_conta(n, valor)) =>
              IF resultado' = Ok
              THEN UmLancamentoAMais(contas[n].extrato, contas'[n].extrato)
              ELSE contas'[n].extrato = contas[n].extrato
    /\ \A n \in DOMAIN contas :
          extrato_da_conta(n) => contas'[n].extrato = contas[n].extrato

\* C15: each account's log is append-only: every operation leaves the old log
\* as a prefix of the new one, a successful deposit or withdrawal appends
\* exactly one entry, every failing operation and every statement call appends
\* none, and the log length always equals the number of successful deposits
\* plus successful withdrawals on the account.
C15_ExtratoSoCresce == []C15_TamanhoDoExtrato /\ [][C15_SoAcrescenta]_vars

\* A statement has just been read from a log of three entries, two deposits
\* and a withdrawal, of an account that also had a withdrawal refused.
C15_Witness ==
    /\ op = "extrato"
    /\ \E n \in DOMAIN contas :
          /\ Len(contas[n].extrato) = 3
          /\ historico[n].depositos = 2
          /\ historico[n].saques = 1
          /\ historico[n].tentativas > historico[n].sucessos

\* C16: if the observed calendar date never decreases between calls and the
\* same daily limit is passed to every withdrawal, then for every account and
\* every calendar date at most that many withdrawals succeed on that date, and
\* the account's withdrawal counter always stays within 0..limit.
C16_NoMaximoOLimitePorDia ==
    \A n \in DOMAIN contas :
        /\ contas[n].numero_saques_hoje \in 0..limite_saques_dia
        /\ \A d \in Dias : historico[n].saques_por_dia[d] <= limite_saques_dia

\* On each of two consecutive days one withdrawal was made under a daily limit
\* of 1, and a further withdrawal has just been refused for the daily limit.
C16_Witness ==
    /\ op = "sacar"
    /\ resultado = ErrLimiteSaques
    /\ limite_saques_dia = 1
    /\ \E n \in DOMAIN contas :
          /\ \A d \in Dias : historico[n].saques_por_dia[d] = 1
          /\ contas[n].numero_saques_hoje = 1

\* a == b on Python floats: false when either is NaN
Igual(a, b) == ~a.nan /\ ~b.nan /\ a.v = b.v

\* C17: in every reachable state each account's balance equals the sum of the
\* amounts of its successful deposits minus the sum of the amounts of its
\* successful withdrawals.
C17_SaldoEhASoma ==
    \A n \in DOMAIN contas :
        Igual(contas[n].saldo,
              Subtrai(historico[n].total_depositos, historico[n].total_saques))

\* C18: a deposit, withdrawal or statement on one account leaves every other
\* account's balance, log, withdrawal counter and reference date unchanged
\* (other accounts of the same holder included), and leaves the holder registry
\* and the set of account numbers unchanged.
C18_OutrasContasIntactas ==
    [][\A n \in DOMAIN contas, valor \in ValoresDuasContas :
          (depositar_na_conta(n, valor) \/ sacar_da_conta(n, valor) \/ extrato_da_conta(n)) =>
              /\ \A m \in DOMAIN contas \ {n} :
                    /\ contas'[m].saldo = contas[m].saldo
                    /\ contas'[m].extrato = contas[m].extrato
                    /\ contas'[m].numero_saques_hoje = contas[m].numero_saques_hoje
                    /\ contas'[m].data_referencia_saques = contas[m].data_referencia_saques
                    /\ contas'[m] = contas[m]
              /\ usuarios' = usuarios
              /\ DOMAIN contas' = DOMAIN contas]_vars

\* A withdrawal has just been made on account 1 on the day after a deposit and
\* a refused withdrawal on account 2 of the same holder, whose balance, log,
\* counter and reference date are those of the day before.
C18_Witness ==
    /\ op = "sacar"
    /\ resultado = Ok
    /\ DOMAIN contas = {1, 2}
    /\ contas[1].cpf_titular = contas[2].cpf_titular
    /\ contas[1].data_referencia_saques = hoje
    /\ Len(contas[1].extrato) = 2
    /\ contas[1].extrato[2].data = hoje
    /\ contas[1].extrato[2].tipo = "SAQUE"
    /\ contas[2].data_referencia_saques \notin {hoje, Nenhuma}
    /\ contas[2].numero_saques_hoje = 0
    /\ Len(contas[2].extrato) = 1
    /\ contas[2].extrato[1].data # hoje
    /\ contas[2].saldo = F(1)

\* The active account is none, or one account of the account registry.
C19_ContaAtivaRegistrada ==
    /\ Cardinality(conta_atual) <= 1
    /\ conta_atual \subseteq DOMAIN contas

\* What the menu's commands do with the active account: with none active, the
\* deposit, withdraw and statement commands print that no account is active and
\* leave every account as it was; with one active, they leave every other
\* account as it was; an access command naming a number that is not in the
\* registry leaves no account active.
C19_ComandosDoMenu ==
    /\ \A texto \in TextosDeValor :
          (OpcaoD(texto) \/ OpcaoS(texto) \/ OpcaoE) =>
              /\ conta_atual' = conta_atual
              /\ conta_atual = {} =>
                    (resultado' = MsgNenhumaContaAtiva /\ contas' = contas)
              /\ \A m \in DOMAIN contas \ conta_atual : contas'[m] = contas[m]
    /\ \A texto \in TextosDeNumero :
          (OpcaoAC(texto) /\ texto.valido /\ texto.valor \notin DOMAIN contas) =>
              /\ conta_atual' = {}
              /\ contas' = contas

\* C19: in the CLI loop the active account is always either none or an account
\* of the account registry; the deposit, withdraw and statement commands change
\* or read account state only while an account is active; and an access command
\* naming a number that is not in the registry leaves no account active, even
\* if one was active before.
C19_ContaAtiva == []C19_ContaAtivaRegistrada /\ [][C19_ComandosDoMenu]_vars

\* An access command has just named a number that is not in the registry, after
\* a deposit was made through the menu on an account that was active: no
\* account is active now.
C19_Witness ==
    /\ op = "acessar"
    /\ resultado = MsgContaNaoEncontrada
    /\ conta_atual = {}
    /\ \E n \in DOMAIN contas : contas[n].extrato # <<>>

====
